---- MODULE Spec2Model ----
(***************************************************************************)
(* A model of the Transfermarkt league-injuries scraper                    *)
(* (app/services/players/league_injuries.py).                              *)
(*                                                                         *)
(* Text is modelled at character level: a Python str is a sequence of      *)
(* one-character strings, <<"1", "/", "9">> for "1/9".  Characters outside *)
(* ASCII are written by code point: "U+00FC" is u-umlaut, "U+0308" the     *)
(* combining diaeresis, "U+00A0" the no-break space.  Python's None is the *)
(* one-element sequence None, whose element is no character.               *)
(***************************************************************************)
EXTENDS Integers, Sequences, FiniteSets, TLC

VARIABLES
    pc,         \* position of the scraper: construction loop, guard, get_injuries
    requested,  \* the URL the caller constructed the scraper with
    URL,        \* self.URL
    page,       \* self.page, the document fetched last
    cand,       \* index of the loop of __post_init__ into candidates
    fetched,    \* the URLs requested so far, in order
    seen,       \* per document fetched so far: which kinds of table it held
    response,   \* what construction / get_injuries ended with
    fn,         \* the pure function a unit specification applies
    args,       \* its arguments
    result,     \* its result, once applied
    fetch_pc,   \* position of fetch_first_result: in its loop, returned
    max_retries, \* its parameter
    attempt,    \* its local variables
    status_code,
    last_exc,
    sent,       \* what each request sent so far ended with, in order
    record      \* the PlayerFetchRecord it returned

vars == <<pc, requested, URL, page, cand, fetched, seen, response, fn, args, result,
          fetch_pc, max_retries, attempt, status_code, last_exc, sent, record>>

scraperVars == <<pc, requested, URL, page, cand, fetched, seen, response>>
unitVars == <<fn, args, result>>
fetchVars == <<fetch_pc, max_retries, attempt, status_code, last_exc, sent, record>>

----------------------------------------------------------------------------
(* Python values *)

None == <<"None">>

\* Python truthiness of an Optional[str]: None and "" are falsy
Truthy(s) == s # None /\ s # <<>>

Range(f) == {f[i] : i \in DOMAIN f}

Max(S) == CHOOSE x \in S : \A y \in S : y <= x
Min(S) == CHOOSE x \in S : \A y \in S : x <= y

----------------------------------------------------------------------------
(* Characters *)

UpperLetters ==
    <<"A", "B", "C", "D", "E", "F", "G", "H", "I", "J", "K", "L", "M",
      "N", "O", "P", "Q", "R", "S", "T", "U", "V", "W", "X", "Y", "Z">>

LowerLetters ==
    <<"a", "b", "c", "d", "e", "f", "g", "h", "i", "j", "k", "l", "m",
      "n", "o", "p", "q", "r", "s", "t", "u", "v", "w", "x", "y", "z">>

Digits == <<"0", "1", "2", "3", "4", "5", "6", "7", "8", "9">>

IsUpper(c) == c \in Range(UpperLetters)
IsAlpha(c) == c \in Range(UpperLetters) \cup Range(LowerLetters)
IsDigit(c) == c \in Range(Digits)

\* str.isspace / regex \s on the characters of the model
IsSpace(c) == c \in {" ", "\t", "\n", "U+00A0"}

\* regex \w: letters (accented ones too), digits and the underscore
IsWord(c) == IsAlpha(c) \/ IsDigit(c) \/ c \in {"_", "U+00FC", "U+00DC"}

\* unicodedata.combining(ch) # 0
IsCombining(c) == c = "U+0308"

\* str.lower on one character
LowerChar(c) ==
    IF IsUpper(c)
    THEN LowerLetters[CHOOSE i \in 1..26 : UpperLetters[i] = c]
    ELSE IF c = "U+00DC" THEN "U+00FC" ELSE c

\* int() of one digit
DigitVal(c) == (CHOOSE i \in 1..10 : Digits[i] = c) - 1

\* unicodedata.normalize("NFKD", ch) of one character
NFKDChar(c) ==
    CASE c = "U+00FC" -> <<"u", "U+0308">>
      [] c = "U+00DC" -> <<"U", "U+0308">>
      [] c = "U+00A0" -> <<" ">>
      [] OTHER -> <<c>>

----------------------------------------------------------------------------
(* Strings *)

RECURSIVE Concat(_)
\* "".join(parts)
Concat(parts) ==
    IF parts = <<>> THEN <<>> ELSE Head(parts) \o Concat(Tail(parts))

RECURSIVE Join(_, _)
\* sep.join(parts)
Join(sep, parts) ==
    IF parts = <<>> THEN <<>>
    ELSE IF Len(parts) = 1 THEN parts[1]
    ELSE parts[1] \o sep \o Join(sep, Tail(parts))

MapChars(s, F(_)) == [i \in 1..Len(s) |-> F(s[i])]

RECURSIVE LStrip(_)
LStrip(s) ==
    IF s # <<>> /\ IsSpace(Head(s)) THEN LStrip(Tail(s)) ELSE s

RECURSIVE RStrip(_)
RStrip(s) ==
    IF s # <<>> /\ IsSpace(s[Len(s)]) THEN RStrip(SubSeq(s, 1, Len(s) - 1)) ELSE s

\* str.strip()
Strip(s) == RStrip(LStrip(s))

RECURSIVE CollapseSpaces(_)
\* re.sub(r"\s+", " ", s): every maximal run of whitespace becomes one space
CollapseSpaces(s) ==
    IF s = <<>> THEN <<>>
    ELSE IF IsSpace(Head(s)) THEN <<" ">> \o CollapseSpaces(LStrip(s))
    ELSE <<Head(s)>> \o CollapseSpaces(Tail(s))

\* app.utils.utils.trim: surrounding whitespace removed
trim(s) == Strip(s)

----------------------------------------------------------------------------
(* _norm_text *)

_norm_text(s) ==
    IF ~Truthy(s) THEN <<>>
    ELSE
        LET s1 == Concat(MapChars(s, NFKDChar))
            s2 == SelectSeq(s1, LAMBDA ch : ~IsCombining(ch))
            s3 == MapChars(Strip(s2), LowerChar)
            s4 == CollapseSpaces(s3)
        IN  SelectSeq(s4, LAMBDA ch : IsWord(ch) \/ ch = " ")

----------------------------------------------------------------------------
(* _build_column_map *)

\* The alias table, in the order of the dict: canon returns the first key
\* whose set holds the header.
variants ==
  <<
    [key |-> "player", alts |-> <<
        <<"p", "l", "a", "y", "e", "r">>,
        <<"s", "p", "i", "e", "l", "e", "r">> >>],
    [key |-> "club", alts |-> <<
        <<"c", "l", "u", "b">>,
        <<"v", "e", "r", "e", "i", "n">>,
        <<"t", "e", "a", "m">>,
        <<"m", "a", "n", "n", "s", "c", "h", "a", "f", "t">> >>],
    [key |-> "injury", alts |-> <<
        <<"i", "n", "j", "u", "r", "y">>,
        <<"v", "e", "r", "l", "e", "t", "z", "u", "n", "g">> >>],
    [key |-> "since", alts |-> <<
        <<"s", "i", "n", "c", "e">>,
        <<"s", "e", "i", "t">>,
        <<"f", "r", "o", "m">>,
        <<"i", "n", "j", "u", "r", "y", " ", "s", "i", "n", "c", "e">>,
        <<"d", "a", "t", "e", " ", "o", "f", " ", "i", "n", "j", "u", "r", "y">>,
        <<"o", "u", "t", " ", "s", "i", "n", "c", "e">> >>],
    [key |-> "until", alts |-> <<
        <<"u", "n", "t", "i", "l">>,
        <<"b", "i", "s">>,
        <<"t", "o">>,
        <<"r", "e", "t", "u", "r", "n", " ", "d", "a", "t", "e">>,
        <<"b", "a", "c", "k", " ", "o", "n">>,
        <<"o", "u", "t", " ", "u", "n", "t", "i", "l">> >>],
    [key |-> "expectedreturn", alts |-> <<
        <<"e", "x", "p", "e", "c", "t", "e", "d", " ", "r", "e", "t", "u", "r", "n">>,
        <<"e", "r", "w", "a", "r", "t", "e", "t", "e", " ", "r", "U+00FC", "c", "k", "k", "e", "h", "r">>,
        <<"v", "o", "r", "a", "u", "s", "s", "i", "c", "h", "t", "l", "i", "c", "h", "e", " ", "r", "U+00FC", "c", "k", "k", "e", "h", "r">>,
        <<"e", "x", "p", "e", "c", "t", "e", "d", " ", "b", "a", "c", "k">> >>],
    [key |-> "daysabsent", alts |-> <<
        <<"d", "a", "y", "s">>,
        <<"t", "a", "g", "e">>,
        <<"f", "e", "h", "l", "t", "a", "g", "e">> >>],
    [key |-> "gamesmissed", alts |-> <<
        <<"g", "a", "m", "e", "s", " ", "m", "i", "s", "s", "e", "d">>,
        <<"s", "p", "i", "e", "l", "e", " ", "v", "e", "r", "p", "a", "s", "s", "t">>,
        <<"s", "p", "i", "e", "l", "e">> >>],
    [key |-> "notes", alts |-> <<
        <<"n", "o", "t", "e">>,
        <<"n", "o", "t", "e", "s">>,
        <<"b", "e", "m", "e", "r", "k", "u", "n", "g">>,
        <<"a", "n", "m", "e", "r", "k", "u", "n", "g">> >>],
    [key |-> "position", alts |-> <<
        <<"p", "o", "s", "i", "t", "i", "o", "n">>,
        <<"p", "o", "s", ".">> >>]
  >>

\* what canon returns for a header that is no alias
NoKey == "None"

Keys == {variants[i].key : i \in DOMAIN variants}

\* the alias set of a key
Alts(key) ==
    Range(variants[CHOOSE i \in DOMAIN variants : variants[i].key = key].alts)

\* canon(h): the first key, in dict order, whose alias set holds h
canon(h) ==
    LET hits == {i \in DOMAIN variants : h \in Range(variants[i].alts)}
    IN  IF hits = {} THEN NoKey
        ELSE variants[CHOOSE i \in hits : \A j \in hits : i <= j].key

EmptyMap == [k \in {} |-> 0]

\* col_map[key] = idx
Put(m, key, idx) ==
    [k \in DOMAIN m \cup {key} |-> IF k = key THEN idx ELSE m[k]]

\* the text of an element: " ".join(e.xpath(".//text()"))
JoinedText(fragments) == Join(<<" ">>, fragments)

RECURSIVE FillColumnMapFirstWins(_, _, _)
\* FillColumnMap keeping the first header matching a field
FillColumnMapFirstWins(headers, idx, col_map) ==
    IF idx > Len(headers) THEN col_map
    ELSE LET key == canon(headers[idx])
         IN  FillColumnMapFirstWins(headers, idx + 1,
                 IF key # NoKey /\ key \notin DOMAIN col_map
                 THEN Put(col_map, key, idx) ELSE col_map)

RECURSIVE FillColumnMap(_, _, _)
\* the loop over enumerate(headers, start=1), from idx on
FillColumnMap(headers, idx, col_map) ==
    IF idx > Len(headers) THEN col_map
    ELSE LET key == canon(headers[idx])
         IN  FillColumnMap(headers, idx + 1,
                           IF key # NoKey THEN Put(col_map, key, idx) ELSE col_map)

\* ths: the header cells of the table (.//thead//th), each the sequence of its
\* text fragments
_build_column_map(ths) ==
    LET headers == [i \in 1..Len(ths) |-> _norm_text(JoinedText(ths[i]))]
    IN  FillColumnMap(headers, 1, EmptyMap)

----------------------------------------------------------------------------
(* _normalize_date *)

AllDigits(s) == \A i \in 1..Len(s) : IsDigit(s[i])

RECURSIVE ToInt(_)
\* int(s) of a string of digits
ToInt(s) ==
    IF s = <<>> THEN 0 ELSE 10 * ToInt(SubSeq(s, 1, Len(s) - 1)) + DigitVal(s[Len(s)])

RECURSIVE ToDecimal(_)
\* str(n), n >= 0
ToDecimal(n) ==
    IF n < 10 THEN <<Digits[n + 1]>> ELSE ToDecimal(n \div 10) \o <<Digits[(n % 10) + 1]>>

RECURSIVE ZeroPad(_, _)
\* a string of digits filled with zeros on the left up to width
ZeroPad(s, width) == IF Len(s) >= width THEN s ELSE ZeroPad(<<"0">> \o s, width)

\* f"{n:02d}"
Format02d(n) == ZeroPad(ToDecimal(n), 2)

RECURSIVE Split(_, _)
\* s.split(sep) for a one-character separator
Split(s, sep) ==
    IF \A i \in 1..Len(s) : s[i] # sep THEN <<s>>
    ELSE LET k == CHOOSE i \in 1..Len(s) : s[i] = sep /\ \A j \in 1..(i - 1) : s[j] # sep
         IN  <<SubSeq(s, 1, k - 1)>> \o Split(SubSeq(s, k + 1, Len(s)), sep)

\* the groups of ^(\d{lo1,hi1})SEP(\d{lo2,hi2})SEP(\d{lo3,hi3})$, or <<>> when the
\* string does not match; lens[i] is the set of lengths group i may have
MatchThree(s, sep, lens) ==
    LET parts == Split(s, sep)
    IN  IF /\ Len(parts) = 3
           /\ \A i \in 1..3 : AllDigits(parts[i]) /\ Len(parts[i]) \in lens[i]
        THEN parts ELSE <<>>

MonthNames ==
    << <<"j", "a", "n">>, <<"f", "e", "b">>, <<"m", "a", "r">>, <<"a", "p", "r">>,
       <<"m", "a", "y">>, <<"j", "u", "n">>, <<"j", "u", "l">>, <<"a", "u", "g">>,
       <<"s", "e", "p">>, <<"o", "c", "t">>, <<"n", "o", "v">>, <<"d", "e", "c">> >>

IsLeap(y) == (y % 4 = 0) /\ ((y % 100 # 0) \/ (y % 400 = 0))

DaysInMonth(y, m) ==
    IF m = 2 THEN (IF IsLeap(y) THEN 29 ELSE 28)
    ELSE IF m \in {4, 6, 9, 11} THEN 30 ELSE 31

NoDate == [ok |-> FALSE]

\* datetime.strptime(s, "%b %d, %Y"): the format compiles to
\*   (?P<b>jan|...|dec)\s+(?P<d>3[0-1]|[1-2]\d|0[1-9]|[1-9]| [1-9]),\s+(?P<Y>\d\d\d\d)
\* matched ignoring case against the whole string; the date must exist.
\* NoDate stands for the ValueError.
strptime(s) ==
    IF Len(s) < 3 \/ MapChars(SubSeq(s, 1, 3), LowerChar) \notin Range(MonthNames)
    THEN NoDate
    ELSE
        LET mon == CHOOSE i \in 1..12 : MonthNames[i] = MapChars(SubSeq(s, 1, 3), LowerChar)
            r1 == SubSeq(s, 4, Len(s))
            r2 == LStrip(r1)
            fields == Split(r2, ",")
        IN  IF r2 = r1 \/ Len(fields) # 2 THEN NoDate
            ELSE
                LET dtxt == fields[1]
                    r3 == fields[2]
                    ytxt == LStrip(r3)
                IN  IF \/ dtxt = <<>> \/ Len(dtxt) > 2 \/ ~AllDigits(dtxt)
                       \/ ToInt(dtxt) \notin 1..31
                       \/ ytxt = r3
                       \/ Len(ytxt) # 4 \/ ~AllDigits(ytxt)
                    THEN NoDate
                    ELSE
                        LET y == ToInt(ytxt)
                            d == ToInt(dtxt)
                        IN  IF y < 1 \/ d > DaysInMonth(y, mon) THEN NoDate
                            ELSE [ok |-> TRUE, year |-> y, month |-> mon, day |-> d]

\* date.strftime("%Y-%m-%d"). The C library decides whether %Y fills a year
\* below 1000 with zeros (glibc does not): pads is that decision.
strftime(date, pads) ==
    (IF pads THEN ZeroPad(ToDecimal(date.year), 4) ELSE ToDecimal(date.year))
        \o <<"-">> \o Format02d(date.month) \o <<"-">> \o Format02d(date.day)

Placeholders ==
    { <<"-">>, <<"?">>,
      <<"u", "n", "k", "n", "o", "w", "n">>, <<"U", "n", "k", "n", "o", "w", "n">> }

\* re.sub(r"^[A-Za-z]{3},\s*", "", s)
StripWeekday(s) ==
    IF Len(s) >= 4 /\ (\A i \in 1..3 : IsAlpha(s[i])) /\ s[4] = ","
    THEN LStrip(SubSeq(s, 5, Len(s))) ELSE s

_normalize_date(s0, pads) ==
    IF ~Truthy(s0) \/ s0 \in Placeholders THEN None
    ELSE
        LET s == Strip(s0)
            iso == MatchThree(s, "-", <<{4}, {2}, {2}>>)
            dot == MatchThree(s, ".", <<{1, 2}, {1, 2}, {4}>>)
            slash == MatchThree(s, "/", <<{1, 2}, {1, 2}, {2, 3, 4}>>)
            s2 == StripWeekday(s)
        IN  IF iso # <<>> THEN s
            ELSE IF dot # <<>> THEN
                dot[3] \o <<"-">> \o Format02d(ToInt(dot[2])) \o <<"-">> \o Format02d(ToInt(dot[1]))
            ELSE IF slash # <<>> THEN
                LET y == IF Len(slash[3]) = 2
                         THEN (IF ToInt(slash[3]) <= 69 THEN <<"2", "0">> ELSE <<"1", "9">>)
                                  \o slash[3]
                         ELSE slash[3]
                IN  y \o <<"-">> \o Format02d(ToInt(slash[2])) \o <<"-">> \o Format02d(ToInt(slash[1]))
            ELSE IF strptime(s).ok THEN strftime(strptime(s), pads)
            ELSE IF strptime(s2).ok THEN strftime(strptime(s2), pads)
            ELSE None

----------------------------------------------------------------------------
(* Elements.  A cell (td) is [class, nodes]; a node is a text node, an      *)
(* anchor or an image, in document order.  An attribute or a text that is  *)
(* absent is None.  Rows are flat: a cell holds no table of its own.       *)

TextNode(txt) ==
    [tag |-> "text", text |-> txt, href |-> None, class |-> None, title |-> None, alt |-> None]
Anchor(href, class, title, txt) ==
    [tag |-> "a", text |-> txt, href |-> href, class |-> class, title |-> title, alt |-> None]
Image(alt) ==
    [tag |-> "img", text |-> None, href |-> None, class |-> None, title |-> None, alt |-> alt]

\* XPath contains(haystack, needle); an absent attribute is the empty string
Contains(hay, needle) ==
    /\ hay # None
    /\ \E i \in 1..(Len(hay) - Len(needle) + 1) :
          SubSeq(hay, i, i + Len(needle) - 1) = needle

\* Python's  needle in hay
In(needle, hay) ==
    \E i \in 1..(Len(hay) - Len(needle) + 1) : SubSeq(hay, i, i + Len(needle) - 1) = needle

\* the values F(n) of the nodes n that satisfy P, in document order
Values(nodes, P(_), F(_)) ==
    LET kept == SelectSeq(nodes, P) IN [i \in 1..Len(kept) |-> F(kept[i])]

\* cell.xpath(".//text()")
Texts(nodes) == Values(nodes, LAMBDA n : n.text # None, LAMBDA n : n.text)

\* cell.xpath(".//a/@href")
Hrefs(nodes) == Values(nodes, LAMBDA n : n.tag = "a" /\ n.href # None, LAMBDA n : n.href)

\* cell.xpath(".//a/@title | .//img/@alt")
TitlesAndAlts(nodes) ==
    Values(nodes,
           LAMBDA n : (n.tag = "a" /\ n.title # None) \/ (n.tag = "img" /\ n.alt # None),
           LAMBDA n : IF n.tag = "a" THEN n.title ELSE n.alt)

\* all nodes of a row, cell after cell
RowNodes(tds) == Concat([i \in 1..Len(tds) |-> tds[i].nodes])

\* a[contains(@class,'spielprofil') or contains(@href,'profil/spieler')]
IsProfileAnchor(n) ==
    /\ n.tag = "a"
    /\ \/ Contains(n.class, <<"s", "p", "i", "e", "l", "p", "r", "o", "f", "i", "l">>)
       \/ Contains(n.href, <<"p", "r", "o", "f", "i", "l", "/", "s", "p", "i", "e", "l", "e", "r">>)

----------------------------------------------------------------------------
(* _parse_row *)

RECURSIVE LastSegment(_)
LastSegment(s) ==
    IF s = <<>> \/ s[Len(s)] = "/" THEN <<>>
    ELSE LastSegment(SubSeq(s, 1, Len(s) - 1)) \o <<s[Len(s)]>>

\* app.utils.utils.extract_from_url: the identifier that ends the path, None
\* for no URL or no identifier
extract_from_url(url) ==
    IF url = None \/ LastSegment(url) = <<>> \/ ~(\A i \in 1..Len(LastSegment(url)) : IsWord(LastSegment(url)[i]))
    THEN None ELSE LastSegment(url)

\* cell_text(col_key)
cell_text(tds, col_map, col_key) ==
    IF col_key \notin DOMAIN col_map \/ col_map[col_key] > Len(tds) THEN None
    ELSE trim(JoinedText(Texts(tds[col_map[col_key]].nodes)))

\* cell_link(col_key)
cell_link(tds, col_map, col_key) ==
    IF col_key \notin DOMAIN col_map \/ col_map[col_key] > Len(tds) THEN None
    ELSE LET hrefs == Hrefs(tds[col_map[col_key]].nodes)
         IN  IF hrefs # <<>> THEN trim(hrefs[1]) ELSE None

\* player_name, player_url after the fallback to the profile anchors of the row
PlayerOf(tds, col_map) ==
    LET name == cell_text(tds, col_map, "player")
        url == cell_link(tds, col_map, "player")
        anchors == SelectSeq(RowNodes(tds), IsProfileAnchor)
        link == Hrefs(anchors)
    IN  IF (~Truthy(name) \/ ~Truthy(url)) /\ link # <<>>
        THEN [name |-> trim(JoinedText(Texts(anchors))), url |-> trim(link[1])]
        ELSE [name |-> name, url |-> url]

\* tds[idx - 1] for the club column raises IndexError
ClubRaises(tds, col_map) ==
    /\ "club" \in DOMAIN col_map
    /\ ~Truthy(cell_text(tds, col_map, "club"))
    /\ col_map["club"] > Len(tds)

\* club_name, club_url (when the club column is within the row)
ClubOf(tds, col_map) ==
    IF "club" \notin DOMAIN col_map THEN [name |-> None, url |-> None]
    ELSE
        LET name == cell_text(tds, col_map, "club")
            url == cell_link(tds, col_map, "club")
            nodes == tds[col_map["club"]].nodes
            t == TitlesAndAlts(nodes)
            href == Hrefs(nodes)
        IN  IF Truthy(name) THEN [name |-> name, url |-> url]
            ELSE [name |-> IF t # <<>> THEN trim(t[1]) ELSE name,
                  url |-> IF Truthy(url) THEN url
                          ELSE IF href # <<>> THEN trim(href[1]) ELSE None]

\* LinksSiblings starting at the links cell itself
LinksSiblingsFromSelf(tds) ==
    LET hits == {i \in 1..Len(tds) : Contains(tds[i].class, <<"l", "i", "n", "k", "s">>)}
    IN  IF hits = {} THEN <<>>
        ELSE SubSeq(tds, CHOOSE i \in hits : \A j \in hits : i <= j, Len(tds))

\* the cells after the first td whose class contains 'links':
\* tr.xpath(".//td[contains(@class,'links')][1]")[0].itersiblings(tag="td"),
\* or <<>> when the row has no such td
LinksSiblings(tds) ==
    LET hits == {i \in 1..Len(tds) : Contains(tds[i].class, <<"l", "i", "n", "k", "s">>)}
    IN  IF hits = {} THEN <<>>
        ELSE SubSeq(tds, (CHOOSE i \in hits : \A j \in hits : i <= j) + 1, Len(tds))

\* since, until: the mapped columns, then the two cells after the links cell
\* (both, or neither when next(sibs) raises StopIteration)
DatesOf(tds, col_map, pads) ==
    LET since == _normalize_date(cell_text(tds, col_map, "since"), pads)
        until == _normalize_date(cell_text(tds, col_map, "until"), pads)
        sibs == LinksSiblings(tds)
    IN  IF (since = None \/ until = None) /\ Len(sibs) >= 2
        THEN LET s_text == trim(JoinedText(Texts(sibs[1].nodes)))
                 u_text == trim(JoinedText(Texts(sibs[2].nodes)))
             IN  [since |-> IF since = None THEN _normalize_date(s_text, pads) ELSE since,
                  until |-> IF until = None THEN _normalize_date(u_text, pads) ELSE until]
        ELSE [since |-> since, until |-> until]

ReturnsNone == [type |-> "None"]
RaisesIndexError == [type |-> "IndexError"]
NoClub == [isNone |-> TRUE]

\* what _parse_row(tr, col_map) ends with: the dict, None, or the exception;
\* tds is tr.xpath("./td")
_parse_row(tds, col_map, pads) ==
    IF tds = <<>> THEN ReturnsNone
    ELSE IF ClubRaises(tds, col_map) THEN RaisesIndexError
    ELSE
        LET player == PlayerOf(tds, col_map)
            club == ClubOf(tds, col_map)
            injury == cell_text(tds, col_map, "injury")
            dates == DatesOf(tds, col_map, pads)
        IN  IF ~(Truthy(player.name) /\ Truthy(injury)) THEN ReturnsNone
            ELSE [type |-> "dict",
                  player |-> [id |-> extract_from_url(player.url),
                              name |-> player.name,
                              url |-> player.url,
                              club |-> IF Truthy(club.name) \/ Truthy(club.url)
                                       THEN [isNone |-> FALSE,
                                             id |-> extract_from_url(club.url),
                                             name |-> club.name]
                                       ELSE NoClub],
                  injury |-> injury,
                  since |-> dates.since,
                  until |-> dates.until]

----------------------------------------------------------------------------
(* Documents.  A document is [tables, h1, crumb, title, canonical]: its     *)
(* tables in document order, the text nodes under h1, under the last       *)
(* breadcrumb item and under title, and the URLs it declares               *)
(* (link rel=canonical href, meta og:url content) in document order.       *)
(* A table is [class, ths, rows]: ths are its header cells                 *)
(* (.//thead//th), each the sequence of its text fragments; rows are the   *)
(* tr of its tbody, each the sequence of its td.                           *)

\* contains(@class,'items') or contains(@class,'responsive')
IsMarked(table) ==
    \/ Contains(table.class, <<"i", "t", "e", "m", "s">>)
    \/ Contains(table.class, <<"r", "e", "s", "p", "o", "n", "s", "i", "v", "e">>)

\* .//thead//th
HasHeaders(table) == table.ths # <<>>

\* the positions, in document order, of the tables that satisfy P
TablesWhere(tables, P(_)) == {i \in 1..Len(tables) : P(tables[i])}

TableNotFound == 0

\* _get_injuries_table returning the last candidate instead of the first
GetInjuriesTableLast(tables) ==
    LET candidates == TablesWhere(tables, LAMBDA tb : IsMarked(tb) /\ HasHeaders(tb))
        fallback == TablesWhere(tables, HasHeaders)
    IN  IF candidates # {} THEN Max(candidates)
        ELSE IF fallback # {} THEN Max(fallback)
        ELSE TableNotFound

\* _get_injuries_table: the position of the table it returns, TableNotFound
\* when it raises ValueError
_get_injuries_table(tables) ==
    LET candidates == TablesWhere(tables, LAMBDA tb : IsMarked(tb) /\ HasHeaders(tb))
        fallback == TablesWhere(tables, HasHeaders)
    IN  IF candidates # {} THEN Min(candidates)
        ELSE IF fallback # {} THEN Min(fallback)
        ELSE TableNotFound

\* _canonical_url taking the last declared URL instead of the first
CanonicalUrlLast(doc) ==
    IF doc.canonical # <<>> THEN trim(doc.canonical[Len(doc.canonical)]) ELSE None

\* _canonical_url
_canonical_url(doc) ==
    IF doc.canonical # <<>> THEN trim(doc.canonical[1]) ELSE None

\* _guess_league_name
_guess_league_name(doc) ==
    IF doc.h1 # <<>> THEN trim(JoinedText(doc.h1))
    ELSE IF doc.crumb # <<>> THEN trim(JoinedText(doc.crumb))
    ELSE IF doc.title # <<>> THEN trim(JoinedText(doc.title))
    ELSE None

\* the element of a one-element set
The(S) == CHOOSE x \in S : TRUE

\* AppendParsed putting the record behind those of the later rows
AppendParsedBehind(parsed, rest) ==
    IF parsed.type = "IndexError" THEN parsed
    ELSE IF rest.type # "items" THEN rest
    ELSE IF parsed.type = "dict"
         THEN [type |-> "items", items |-> rest.items \o <<parsed>>]
         ELSE rest

\* one turn of the loop of get_injuries: parsed is what _parse_row ended with
\* for the row, rest what the loop does from the next row on
AppendParsed(parsed, rest) ==
    IF parsed.type = "IndexError" THEN parsed
    ELSE IF rest.type # "items" THEN rest
    ELSE IF parsed.type = "dict"
         THEN [type |-> "items", items |-> <<parsed>> \o rest.items]
         ELSE rest

RECURSIVE ParseRows(_, _, _, _)
\* the loop of get_injuries over the rows, from row i on: the items appended,
\* or the exception of the first row that raises
ParseRows(rows, col_map, pads, i) ==
    IF i > Len(rows) THEN [type |-> "items", items |-> <<>>]
    ELSE The({AppendParsed(parsed, rest) :
                parsed \in {_parse_row(rows[i], col_map, pads)},
                rest \in {ParseRows(rows, col_map, pads, i + 1)}})

\* self.response after the update, or the exception of the loop
Respond(doc, url, parsed) ==
    LET canonical_url == _canonical_url(doc)
    IN  IF parsed.type # "items" THEN parsed
        ELSE [type |-> "response",
              league |-> [name |-> _guess_league_name(doc),
                          url |-> IF Truthy(canonical_url) THEN canonical_url ELSE url],
              rows |-> parsed.items]

\* get_injuries on self.page = doc, self.URL = url: the response, or the
\* exception it raises
get_injuries(doc, url, pads) ==
    LET pos == _get_injuries_table(doc.tables) IN
    IF pos = TableNotFound THEN [type |-> "ValueError"]
    ELSE
        The({Respond(doc, url, ParseRows(rows, col_map, pads, 1)) :
                col_map \in {_build_column_map(doc.tables[pos].ths)},
                \* .//tbody/tr[td]
                rows \in {SelectSeq(doc.tables[pos].rows, LAMBDA tr : tr # <<>>)}})

----------------------------------------------------------------------------
(* _ensure_plus_variant.  A URL is written from its path on:               *)
(* path[?query][#fragment]; scheme and host are the same for all.          *)

\* the length of urlsplit(url).path
PathLen(url) ==
    IF \A i \in 1..Len(url) : url[i] \notin {"?", "#"} THEN Len(url)
    ELSE (CHOOSE i \in 1..Len(url) :
            url[i] \in {"?", "#"} /\ \A j \in 1..(i - 1) : url[j] \notin {"?", "#"}) - 1

RECURSIVE RStripSlash(_)
\* path.rstrip("/")
RStripSlash(path) ==
    IF path # <<>> /\ path[Len(path)] = "/"
    THEN RStripSlash(SubSeq(path, 1, Len(path) - 1)) ELSE path

EndsWith(s, suffix) ==
    Len(s) >= Len(suffix) /\ SubSeq(s, Len(s) - Len(suffix) + 1, Len(s)) = suffix

_ensure_plus_variant(url) ==
    LET path == SubSeq(url, 1, PathLen(url))
        rest == SubSeq(url, PathLen(url) + 1, Len(url))
    IN  IF In(<<"/", "p", "l", "u", "s", "/">>, path) \/ EndsWith(path, <<"/", "p", "l", "u", "s", "/", "1">>)
        THEN url
        ELSE RStripSlash(path) \o <<"/", "p", "l", "u", "s", "/", "1">> \o rest

\* candidates of __post_init__
Candidates(url) ==
    LET primary == _ensure_plus_variant(url)
    IN  IF primary = url THEN <<primary>> ELSE <<primary, url>>

----------------------------------------------------------------------------
(* Unit specifications: a pure function applied to inputs from bounded sets *)

Pending == [done |-> FALSE]
Returned(v) == [done |-> TRUE, value |-> v]

ScraperIdle ==
    /\ pc = "idle"
    /\ requested = <<>>
    /\ URL = <<>>
    /\ page = <<>>
    /\ cand = 0
    /\ fetched = <<>>
    /\ seen = <<>>
    /\ response = Pending

\* status_code = None
NoStatus == 0

\* fetch_first_result is not called
FetchIdle ==
    /\ fetch_pc = "idle"
    /\ max_retries = 0
    /\ attempt = 0
    /\ status_code = NoStatus
    /\ last_exc = "None"
    /\ sent = <<>>
    /\ record = Pending

\* header cells a table may carry
HeaderCells ==
    { <<>>,                                         \* <th></th>
      << <<"P", "l", "a", "y", "e", "r">> >>,
      << <<" ", "S", "p", "i", "e", "l", "e", "r", "\n">> >>,
      << <<"I", "n", "j", "u", "r", "y">> >>,
      << <<"I", "n", "j", "u", "r", "y">>, <<"s", "i", "n", "c", "e">> >>,
      << <<"s", "e", "i", "t">> >>,
      << <<"b", "i", "s">> >>,
      << <<"C", "l", "u", "b">> >>,
      << <<"P", "o", "s", ".">> >>,
      << <<"A", "g", "e">> >> }

MaxHeaders == 3

HeaderRows == UNION {[1..n -> HeaderCells] : n \in 0..MaxHeaders}

InitCols ==
    /\ ScraperIdle
    /\ FetchIdle
    /\ fn = "_build_column_map"
    /\ args \in {[ths |-> h] : h \in HeaderRows}
    /\ result = Pending

CallBuildColumnMap ==
    /\ fn = "_build_column_map"
    /\ result = Pending
    /\ result' = Returned(_build_column_map(args.ths))
    /\ UNCHANGED <<fn, args>>
    /\ UNCHANGED <<scraperVars, fetchVars>>

NextCols == CallBuildColumnMap

SpecCols == InitCols /\ [][NextCols]_vars

MaxPad == 2

\* every alias of the table, with the field it is listed under
AliasEntries ==
    UNION {{[key |-> variants[i].key, alias |-> variants[i].alts[j]] :
                j \in DOMAIN variants[i].alts} : i \in DOMAIN variants}

Filler == << <<"A", "g", "e">> >>

\* a header row whose only alias is at position pad + 1
InitAlias ==
    /\ ScraperIdle
    /\ FetchIdle
    /\ fn = "_build_column_map"
    /\ \E e \in AliasEntries, pad \in 0..MaxPad :
          args = [ths |-> [i \in 1..pad |-> Filler] \o << <<e.alias>> >>]
    /\ result = Pending

SpecAlias == InitAlias /\ [][NextCols]_vars

----------------------------------------------------------------------------
(* Claims about _build_column_map *)

NormalizedHeaders(ths) == [i \in 1..Len(ths) |-> _norm_text(JoinedText(ths[i]))]

\* C7: the column map has a field exactly when some header's normalized text
\* is one of the field's aliases; its value is the 1-based position of the
\* last such header, within 1..number of headers; an empty header row gives
\* the empty map.
C7_ColumnMapLastMatch ==
    (fn = "_build_column_map" /\ result.done) =>
        LET m == result.value
            hs == NormalizedHeaders(args.ths)
        IN  /\ DOMAIN m \subseteq Keys
            /\ \A k \in Keys :
                  LET hits == {i \in 1..Len(hs) : hs[i] \in Alts(k)}
                  IN  /\ (k \in DOMAIN m) <=> (hits # {})
                      /\ hits # {} => (m[k] = Max(hits) /\ m[k] \in 1..Len(hs))
            /\ (args.ths = <<>> => m = EmptyMap)

\* two headers of the row are aliases of "since"; the later one is mapped
C7_Witness ==
    /\ fn = "_build_column_map" /\ result.done
    /\ Len(args.ths) = 3
    /\ LET hs == NormalizedHeaders(args.ths)
       IN  /\ hs[1] \in Alts("since") /\ hs[2] \in Alts("since")
           /\ hs[3] \notin Alts("since")
    /\ result.value["since"] = 2

\* C8: a header whose text is an alias listed for a field maps that field to
\* the header's position.
C8_EveryAliasResolves ==
    (fn = "_build_column_map" /\ result.done) =>
        \A i \in 1..Len(args.ths) : \A k \in Keys :
            JoinedText(args.ths[i]) \in Alts(k) =>
                (k \in DOMAIN result.value /\ result.value[k] = i)

----------------------------------------------------------------------------
(* _normalize_date on date strings of every documented shape and near misses *)

DayTexts == { <<"1">>, <<"0", "1">>, <<"1", "1">>, <<"3", "1">> }
MonthTexts == { <<"9">>, <<"0", "9">>, <<"1", "0">> }
YearTexts == { <<"5">>, <<"2", "5">>, <<"6", "9">>, <<"7", "0">>, <<"1", "2", "3">>, <<"2", "0", "2", "5">>, <<"2", "0", "2", "5", "5">> }

\* day, month, year (and year, month, day) around each separator
NumericDates ==
    {d \o <<sep>> \o m \o <<sep>> \o y :
        d \in DayTexts, m \in MonthTexts, y \in YearTexts, sep \in {".", "/", "-"}}
    \cup {y \o <<"-">> \o m \o <<"-">> \o d :
        d \in DayTexts, m \in MonthTexts, y \in YearTexts}

\* [weekday,] month day, year
TextualDates ==
    {wd \o mon \o <<" ">> \o d \o c \o y :
        wd \in { <<>>, <<"S", "a", "t", ",", " ">>, <<"S", "a", "t", ",">>, <<"S", "a", ",", " ">> },
        mon \in { <<"O", "c", "t">>, <<"o", "c", "t">>, <<"F", "e", "b">>, <<"O", "k", "t">> },
        d \in { <<"1">>, <<"0", "1">>, <<"2", "9">>, <<"3", "0">>, <<"3", "2">> },
        c \in { <<",", " ">>, <<",">>, <<",", "\t", " ">> },
        y \in { <<"2", "0", "2", "5">>, <<"2", "0", "2", "4">>, <<"0", "9", "9", "9">>, <<"2", "5">> }}

OtherDates ==
    { None, <<>>, <<" ">>, <<" ", "-", " ">>, <<"t", "b", "d">>,
      <<"U", "N", "K", "N", "O", "W", "N">>,
      <<" ", "2", "0", "2", "5", "-", "1", "0", "-", "1", "1", "\n">>,
      <<"1", "1", ".", "1", "0", ".", "2", "0", "2", "5", " ">> } \cup Placeholders

DateInputs == NumericDates \cup TextualDates \cup OtherDates

InitDate ==
    /\ ScraperIdle
    /\ FetchIdle
    /\ fn = "_normalize_date"
    /\ args \in [s : DateInputs, pads : BOOLEAN]
    /\ result = Pending

CallNormalizeDate ==
    /\ fn = "_normalize_date"
    /\ result = Pending
    /\ result' = Returned(_normalize_date(args.s, args.pads))
    /\ UNCHANGED <<fn, args>>
    /\ UNCHANGED <<scraperVars, fetchVars>>

NextDate == CallNormalizeDate

SpecDate == InitDate /\ [][NextDate]_vars

\* YYYY-MM-DD: four digits, two digits, two digits
IsISODate(v) == MatchThree(v, "-", <<{4}, {2}, {2}>>) # <<>>

\* the patterns the date normalizer documents, on a stripped string
Documented(s) ==
    \/ IsISODate(s)
    \/ MatchThree(s, ".", <<{1, 2}, {1, 2}, {4}>>) # <<>>
    \/ MatchThree(s, "/", <<{1, 2}, {1, 2}, {2, 4}>>) # <<>>
    \/ strptime(s).ok
    \/ strptime(StripWeekday(s)).ok

\* C5: the result of normalizeDate is null or a date of the shape YYYY-MM-DD,
\* and an input matching no documented pattern gives null.
C5_DateIsNullOrISO ==
    (fn = "_normalize_date" /\ result.done) =>
        /\ result.value = None \/ IsISODate(result.value)
        /\ (args.s = None \/ ~Documented(Strip(args.s))) => result.value = None

----------------------------------------------------------------------------
(* _parse_row on rows of a few cells under the column maps of a few headers *)

\* player cell: the name inside a link to the player's profile
PlayerCell ==
    [class |-> <<"h", "a", "u", "p", "t", "l", "i", "n", "k">>,
     nodes |-> <<Anchor(<<"/", "b", "o", "b", "/", "p", "r", "o", "f", "i", "l", "/", "s", "p", "i", "e", "l", "e", "r", "/", "7">>, None, <<"B", "o", "b">>, <<"B", "o", "b">>)>>]

\* another player, linked with the profile class and padded text
OtherPlayerCell ==
    [class |-> None,
     nodes |-> <<Anchor(<<"/", "a", "l", "/", "x", "/", "y", "/", "9">>, <<"s", "p", "i", "e", "l", "p", "r", "o", "f", "i", "l", "_", "t", "o", "o", "l", "t", "i", "p">>, None, <<" ", "A", "l">>)>>]

\* injury cell, class "links" (left-aligned)
InjuryCell == [class |-> <<"l", "i", "n", "k", "s">>, nodes |-> <<TextNode(<<"K", "n", "e", "e">>)>>]

DateCell == [class |-> <<"z", "e", "n", "t", "r", "i", "e", "r", "t">>, nodes |-> <<TextNode(<<"1", "1", ".", "1", "0", ".", "2", "0", "2", "5">>)>>]

\* a text no date pattern matches
TextCell == [class |-> <<"z", "e", "n", "t", "r", "i", "e", "r", "t">>, nodes |-> <<TextNode(<<"t", "b", "d">>)>>]

\* club crest: a linked image, no text
CrestCell ==
    [class |-> <<"z", "e", "n", "t", "r", "i", "e", "r", "t">>,
     nodes |-> <<Anchor(<<"/", "f", "c", "/", "s", "t", "a", "r", "t", "s", "e", "i", "t", "e", "/", "v", "e", "r", "e", "i", "n", "/", "3">>, None, <<"F", "C">>, None),
                 Image(<<"F", "C">>)>>]

EmptyCell == [class |-> None, nodes |-> <<>>]

Cells == {PlayerCell, OtherPlayerCell, InjuryCell, DateCell, TextCell, CrestCell, EmptyCell}

MaxCells == 4

Rows == UNION {[1..n -> Cells] : n \in 0..MaxCells}

\* header rows of injuries tables: English, complete; without dates; with an
\* unknown last column; with a club column; with no known column
RowHeaders ==
    { << <<<<"P", "l", "a", "y", "e", "r">>>>, <<<<"I", "n", "j", "u", "r", "y">>>>, <<<<"S", "i", "n", "c", "e">>>>, <<<<"U", "n", "t", "i", "l">>>> >>,
      << <<<<"P", "l", "a", "y", "e", "r">>>>, <<<<"I", "n", "j", "u", "r", "y">>>> >>,
      << <<<<"P", "l", "a", "y", "e", "r">>>>, <<<<"I", "n", "j", "u", "r", "y">>>>, <<<<"S", "i", "n", "c", "e">>>>, <<<<"A", "g", "e">>>> >>,
      << <<<<"P", "l", "a", "y", "e", "r">>>>, <<<<"I", "n", "j", "u", "r", "y">>>>, <<<<"S", "i", "n", "c", "e">>>>, <<<<"C", "l", "u", "b">>>> >>,
      << <<<<"A", "g", "e">>>> >> }

InitRow ==
    /\ ScraperIdle
    /\ FetchIdle
    /\ fn = "_parse_row"
    \* no date text of these rows has a year below 1000, where alone the C
    \* library's choice (pads) shows
    /\ args \in [tds : Rows, col_map : {_build_column_map(h) : h \in RowHeaders}, pads : {FALSE}]
    /\ result = Pending

CallParseRow ==
    /\ fn = "_parse_row"
    /\ result = Pending
    /\ result' = Returned(_parse_row(args.tds, args.col_map, args.pads))
    /\ UNCHANGED <<fn, args>>
    /\ UNCHANGED <<scraperVars, fetchVars>>

NextRow == CallParseRow

SpecRow == InitRow /\ [][NextRow]_vars

----------------------------------------------------------------------------
(* Claims about _parse_row *)

RowDone == fn = "_parse_row" /\ result.done

\* C3: parseRow returns a record exactly when player name and injury text are
\* both non-empty after the fallbacks, and null otherwise; a returned record
\* has a non-empty player name and a non-empty injury.
C3_RecordIffNameAndInjury ==
    RowDone =>
        LET named == /\ args.tds # <<>>
                     /\ Truthy(PlayerOf(args.tds, args.col_map).name)
                     /\ Truthy(cell_text(args.tds, args.col_map, "injury"))
        IN  /\ (result.value.type = "dict") <=> named
            /\ ~named => result.value = ReturnsNone
            /\ result.value.type = "dict" =>
                  (Truthy(result.value.player.name) /\ Truthy(result.value.injury))

\* C4: for a row with at least one data cell, whatever the column map,
\* parseRow ends with a record or null and raises nothing.
C4_ParseRowNeverRaises ==
    (RowDone /\ args.tds # <<>>) => result.value.type \in {"dict", "None"}

\* the row has a populated player cell and a populated injury cell, no until
\* column, and a since cell whose text normalizeDate cannot parse
C6_Case ==
    /\ fn = "_parse_row"
    /\ Truthy(cell_text(args.tds, args.col_map, "player"))
    /\ Truthy(cell_text(args.tds, args.col_map, "injury"))
    /\ "until" \notin DOMAIN args.col_map
    /\ Truthy(cell_text(args.tds, args.col_map, "since"))
    /\ _normalize_date(cell_text(args.tds, args.col_map, "since"), args.pads) = None

CellText(tds, i) == trim(JoinedText(Texts(tds[i].nodes)))

\* the position of the first cell of class 'links', 0 when there is none
FirstLinks(tds) ==
    IF \A i \in 1..Len(tds) : ~Contains(tds[i].class, <<"l", "i", "n", "k", "s">>) THEN 0
    ELSE CHOOSE i \in 1..Len(tds) :
            /\ Contains(tds[i].class, <<"l", "i", "n", "k", "s">>)
            /\ \A j \in 1..(i - 1) : ~Contains(tds[j].class, <<"l", "i", "n", "k", "s">>)

----------------------------------------------------------------------------
(* The scraper: construction (__post_init__), then get_injuries *)

InjuriesHeader == << <<<<"P", "l", "a", "y", "e", "r">>>>, <<<<"I", "n", "j", "u", "r", "y">>>>, <<<<"S", "i", "n", "c", "e">>>>, <<<<"U", "n", "t", "i", "l">>>> >>

\* tbody rows: a full row, a row of th only (no td), a row without injury
\* text, a row whose dates come as text
InjuriesRows ==
    << <<PlayerCell, InjuryCell, DateCell, DateCell>>,
       <<>>,
       <<OtherPlayerCell, EmptyCell, DateCell, TextCell>>,
       <<OtherPlayerCell, InjuryCell, TextCell, EmptyCell>> >>

TableClasses == { <<"i", "t", "e", "m", "s">>, <<"r", "e", "s", "p", "o", "n", "s", "i", "v", "e", "-", "t", "a", "b", "l", "e">>, None }

Tables ==
    {[class |-> c, ths |-> b.ths, rows |-> b.rows] :
        c \in TableClasses,
        b \in {[ths |-> <<>>, rows |-> <<>>],
               [ths |-> InjuriesHeader, rows |-> InjuriesRows]}}

MaxTables == 2

TableLists == UNION {[1..n -> Tables] : n \in 0..MaxTables}

\* text nodes under h1: none, whitespace only, a name in two fragments
H1Texts == { <<>>, << <<"\n", " ">> >>, << <<" ", "P", "r", "e", "m", "i", "e", "r">>, <<"L", "e", "a", "g", "u", "e", "\n">> >> }
CrumbTexts == { <<>>, << <<"G", "B", "1">> >> }
TitleTexts == { <<>>, << <<"I", "n", "j", "u", "r", "i", "e", "s">> >> }
\* declared URLs: none, an empty href, a canonical link before og:url
CanonicalURLs == { <<>>, << <<" ">> >>, << <<"/", "c", " ">>, <<"/", "o", "g">> >> }

Metas == [h1 : H1Texts, crumb : CrumbTexts, title : TitleTexts, canonical : CanonicalURLs]

Doc(tables, meta) ==
    [tables |-> tables, h1 |-> meta.h1, crumb |-> meta.crumb, title |-> meta.title,
     canonical |-> meta.canonical]

InjuriesTable(class) == [class |-> class, ths |-> InjuriesHeader, rows |-> InjuriesRows]

\* what a server may answer: every list of tables under one head, and every
\* head over an injuries table, marked or not
Documents ==
    {Doc(tl, [h1 |-> << <<"P", "r", "e", "m", "i", "e", "r", " ", "L", "e", "a", "g", "u", "e">> >>, crumb |-> <<>>, title |-> <<>>,
              canonical |-> <<>>]) : tl \in TableLists}
    \cup {Doc(<<InjuriesTable(c)>>, m) : c \in {<<"i", "t", "e", "m", "s">>, None}, m \in Metas}

\* URLs a caller may ask for: plain, with a trailing slash and a query,
\* already the richer variant
RequestURLs == { <<"/", "l">>, <<"/", "l", "/", "?", "p", "=", "1">>, <<"/", "l", "/", "p", "l", "u", "s", "/", "1">> }

NoPage == [tables |-> <<>>, h1 |-> <<>>, crumb |-> <<>>, title |-> <<>>, canonical |-> <<>>]

Init ==
    /\ pc = "loop"
    /\ requested \in RequestURLs
    /\ URL = requested
    /\ page = NoPage
    /\ cand = 1
    /\ fetched = <<>>
    /\ seen = <<>>
    /\ response = Pending
    /\ fn = "none"
    /\ args = <<>>
    /\ result = Pending
    /\ FetchIdle

\* what the history keeps of a fetched document
Summary(doc) ==
    [marked |-> TablesWhere(doc.tables, LAMBDA tb : IsMarked(tb) /\ HasHeaders(tb)) # {},
     headers |-> TablesWhere(doc.tables, HasHeaders) # {},
     any |-> doc.tables # <<>>]

\* the guard of the loop: a marked table with header cells exists
has_table(doc) ==
    TablesWhere(doc.tables, LAMBDA tb : IsMarked(tb) /\ HasHeaders(tb)) # {}

\* raise_exception_if_not_found(xpath="//table") raises: the page has no
\* element that matches
GuardNotFound(doc) == doc.tables = <<>>

\* self.URL = url; self.page = self.request_url_page(): the server answers
\* with some document
RequestPage ==
    /\ pc = "loop"
    /\ \E doc \in Documents :
          /\ page' = doc
          /\ seen' = Append(seen, Summary(doc))
    /\ URL' = Candidates(requested)[cand]
    /\ fetched' = Append(fetched, Candidates(requested)[cand])
    /\ pc' = "check"
    /\ UNCHANGED <<requested, cand, response>>
    /\ UNCHANGED <<unitVars, fetchVars>>

\* request_url_page fails: the fetch error leaves the constructor
RequestFails ==
    /\ pc = "loop"
    /\ URL' = Candidates(requested)[cand]
    /\ fetched' = Append(fetched, Candidates(requested)[cand])
    /\ pc' = "raised"
    /\ response' = Returned([type |-> "FetchError"])
    /\ UNCHANGED <<requested, page, cand, seen>>
    /\ UNCHANGED <<unitVars, fetchVars>>

\* if has_table: return
CheckFound ==
    /\ pc = "check"
    /\ has_table(page)
    /\ pc' = "constructed"
    /\ UNCHANGED <<requested, URL, page, cand, fetched, seen, response>>
    /\ UNCHANGED <<unitVars, fetchVars>>

\* no table: the next candidate, or the guard after the last one
CheckMissing ==
    /\ pc = "check"
    /\ ~has_table(page)
    /\ cand' = cand + 1
    /\ pc' = IF cand + 1 <= Len(Candidates(requested)) THEN "loop" ELSE "guard"
    /\ UNCHANGED <<requested, URL, page, fetched, seen, response>>
    /\ UNCHANGED <<unitVars, fetchVars>>

\* self.raise_exception_if_not_found(xpath="//table") raises
GuardRaises ==
    /\ pc = "guard"
    /\ GuardNotFound(page)
    /\ pc' = "raised"
    /\ response' = Returned([type |-> "NotFound"])
    /\ UNCHANGED <<requested, URL, page, cand, fetched, seen>>
    /\ UNCHANGED <<unitVars, fetchVars>>

\* ... or returns, and so does __post_init__
GuardPasses ==
    /\ pc = "guard"
    /\ ~GuardNotFound(page)
    /\ pc' = "constructed"
    /\ UNCHANGED <<requested, URL, page, cand, fetched, seen, response>>
    /\ UNCHANGED <<unitVars, fetchVars>>

\* the caller calls get_injuries on the constructed scraper
GetInjuries ==
    /\ pc = "constructed"
    /\ \E pads \in BOOLEAN : response' = Returned(get_injuries(page, URL, pads))
    /\ pc' = "done"
    /\ UNCHANGED <<requested, URL, page, cand, fetched, seen>>
    /\ UNCHANGED <<unitVars, fetchVars>>

Next ==
    \/ RequestPage
    \/ RequestFails
    \/ CheckFound
    \/ CheckMissing
    \/ GuardRaises
    \/ GuardPasses
    \/ GetInjuries

Spec == Init /\ [][Next]_vars

----------------------------------------------------------------------------
(* _get_injuries_table and get_injuries on the documents of every list of  *)
(* tables                                                                  *)

MaxDocTables == 3

DocTableLists == UNION {[1..n -> Tables] : n \in 0..MaxDocTables}

InitLocate ==
    /\ ScraperIdle
    /\ FetchIdle
    /\ fn \in {"_get_injuries_table", "get_injuries"}
    /\ args \in [tables : DocTableLists]
    /\ result = Pending

CallGetInjuriesTable ==
    /\ fn = "_get_injuries_table"
    /\ result = Pending
    /\ result' = Returned(_get_injuries_table(args.tables))
    /\ UNCHANGED <<fn, args>>
    /\ UNCHANGED <<scraperVars, fetchVars>>

CallGetInjuries ==
    /\ fn = "get_injuries"
    /\ result = Pending
    /\ result' = Returned(get_injuries(Doc(args.tables, NoPage), <<"/", "l">>, FALSE))
    /\ UNCHANGED <<fn, args>>
    /\ UNCHANGED <<scraperVars, fetchVars>>

NextLocate == CallGetInjuriesTable \/ CallGetInjuries

SpecLocate == InitLocate /\ [][NextLocate]_vars

\* C2: the table returned is the first marked table with header cells; when
\* there is none, the first table with header cells; the lookup fails exactly
\* when no table has a header cell, and then get_injuries fails too.
C2_FirstTableOfFirstLevel ==
    /\ (fn = "_get_injuries_table" /\ result.done) =>
          LET tables == args.tables
              pos == result.value
              level1(i) == IsMarked(tables[i]) /\ HasHeaders(tables[i])
              level2(i) == HasHeaders(tables[i])
          IN  /\ (pos = TableNotFound) <=> (\A i \in 1..Len(tables) : ~level2(i))
              /\ pos # TableNotFound =>
                    /\ pos \in 1..Len(tables)
                    /\ IF \E i \in 1..Len(tables) : level1(i)
                       THEN level1(pos) /\ \A j \in 1..(pos - 1) : ~level1(j)
                       ELSE level2(pos) /\ \A j \in 1..(pos - 1) : ~level2(j)
    /\ (fn = "get_injuries" /\ result.done) =>
          ((result.value.type = "ValueError")
              <=> (\A i \in 1..Len(args.tables) : ~HasHeaders(args.tables[i])))

\* a marked table is found behind an unmarked table with header cells
C2_Witness ==
    /\ fn = "_get_injuries_table" /\ result.done
    /\ Len(args.tables) >= 2
    /\ HasHeaders(args.tables[1]) /\ ~IsMarked(args.tables[1])
    /\ result.value = 2

----------------------------------------------------------------------------
(* Claims about construction and the result of get_injuries *)

Constructed == pc \in {"constructed", "done"}
NotFoundRaised == pc = "raised" /\ response.value.type = "NotFound"
SomeSeenHasHeaders == \E i \in 1..Len(seen) : seen[i].headers

\* C1: construction fails with the not-found error exactly when neither
\* fetched document holds a table with header cells: it succeeds only if one
\* of them has such a table, and fails only if none has.
C1_NotFoundIffNoHeaderTable ==
    /\ Constructed => SomeSeenHasHeaders
    /\ NotFoundRaised => ~SomeSeenHasHeaders

GotResponse == pc = "done" /\ response.value.type = "response"

\* the first non-empty of the texts, None when all are empty
FirstNonEmpty(texts) ==
    IF \A i \in 1..Len(texts) : texts[i] = <<>> THEN None
    ELSE texts[Min({i \in 1..Len(texts) : texts[i] # <<>>})]

\* C9: the league name is the first non-empty text among h1, last breadcrumb
\* item and title, and null only when all three are empty.
C9_LeagueNameFirstNonEmpty ==
    GotResponse =>
        response.value.league.name =
            FirstNonEmpty(<<trim(JoinedText(page.h1)), trim(JoinedText(page.crumb)),
                            trim(JoinedText(page.title))>>)

\* C10 as stated: without a declared URL the league url is the URL the caller
\* asked for; with one it is the declared value.
C10_UrlIsRequestedOrDeclared ==
    GotResponse =>
        response.value.league.url =
            IF page.canonical = <<>> THEN requested ELSE trim(page.canonical[1])

\* C10, amended: the league url is the first declared URL, trimmed, when the
\* document declares one and it is not empty; otherwise it is the URL fetched
\* last: the richer variant when its document had a marked table with header
\* cells, the caller's URL when not.
C10_Amended ==
    GotResponse =>
        response.value.league.url =
            IF page.canonical # <<>> /\ trim(page.canonical[1]) # <<>>
            THEN trim(page.canonical[1])
            ELSE IF seen[1].marked THEN _ensure_plus_variant(requested) ELSE requested

\* the richer variant was fetched and is reported, not the URL asked for
C10_Witness ==
    /\ GotResponse
    /\ page.canonical = <<>>
    /\ requested = <<"/", "l", "/", "?", "p", "=", "1">>
    /\ response.value.league.url = <<"/", "l", "/", "p", "l", "u", "s", "/", "1", "?", "p", "=", "1">>

----------------------------------------------------------------------------
(* The order and the number of the fetches of construction *)

\* C11: the richer variant is fetched first; the caller's URL is fetched only
\* as a second fetch, only when it differs from the richer variant and only
\* after the richer variant's document had no table with header cells; no
\* fetch follows a document with such a table; there are at most two fetches.
C11_FetchOrder ==
    /\ Len(fetched) <= Len(Candidates(requested))
    /\ Len(fetched) <= 2
    /\ Len(fetched) >= 1 => fetched[1] = _ensure_plus_variant(requested)
    /\ Len(fetched) = 2 =>
          /\ fetched[2] = requested
          /\ requested # _ensure_plus_variant(requested)
    /\ \A i \in 1..(Len(fetched) - 1) : ~seen[i].headers

----------------------------------------------------------------------------
(* get_injuries on one table: every list of rows under two header rows *)

ExtractHeaders ==
    { << <<<<"P", "l", "a", "y", "e", "r">>>>, <<<<"I", "n", "j", "u", "r", "y">>>> >>,
      << <<<<"P", "l", "a", "y", "e", "r">>>>, <<<<"I", "n", "j", "u", "r", "y">>>>, <<<<"C", "l", "u", "b">>>> >> }

\* tbody rows: two players, a row with a club crest, a row without injury
\* text, a row of th only (no td)
DataRows ==
    { <<PlayerCell, InjuryCell>>,
      <<OtherPlayerCell, InjuryCell>>,
      <<PlayerCell, InjuryCell, CrestCell>>,
      <<PlayerCell, EmptyCell>>,
      <<>> }

MaxRows == 3

RowLists == UNION {[1..n -> DataRows] : n \in 0..MaxRows}

InitExtract ==
    /\ ScraperIdle
    /\ FetchIdle
    /\ fn = "get_injuries"
    /\ args \in [tables : {<<[class |-> <<"i", "t", "e", "m", "s">>, ths |-> h, rows |-> r]>> :
                              h \in ExtractHeaders, r \in RowLists}]
    /\ result = Pending

NextExtract == CallGetInjuries

SpecExtract == InitExtract /\ [][NextExtract]_vars

C12_EmptyWitness ==
    /\ fn = "get_injuries" /\ result.done
    /\ Len(args.tables[1].rows) = 2
    /\ result.value.type = "response"
    /\ result.value.rows = <<>>

----------------------------------------------------------------------------
(* The fallbacks of _parse_row *)

\* C13: a date the mapped column leaves unresolved is taken from the cells
\* after the first 'links' cell, since from the first and until from the
\* second: with two or more such cells both, with exactly one only since
\* (until stays null), with none neither; parseRow raises in no such case.
C13_SiblingFallback ==
    (RowDone /\ args.tds # <<>> /\ "club" \notin DOMAIN args.col_map) =>
        LET tds == args.tds
            k == FirstLinks(tds)
            since0 == _normalize_date(cell_text(tds, args.col_map, "since"), args.pads)
            until0 == _normalize_date(cell_text(tds, args.col_map, "until"), args.pads)
            entered == (since0 = None \/ until0 = None) /\ k > 0
        IN  /\ result.value.type \in {"dict", "None"}
            /\ result.value.type = "dict" =>
                  /\ result.value.since =
                        IF since0 # None THEN since0
                        ELSE IF entered /\ k + 1 <= Len(tds)
                             THEN _normalize_date(CellText(tds, k + 1), args.pads)
                             ELSE None
                  /\ result.value.until =
                        IF until0 # None THEN until0
                        ELSE IF entered /\ k + 2 <= Len(tds)
                             THEN _normalize_date(CellText(tds, k + 2), args.pads)
                             ELSE None

\* C14: the name and the URL of the record are those of the mapped player
\* cell unless one of them is missing and the row has an anchor matching the
\* player-profile pattern; then both are those of the first such anchor of
\* the row, the name being the text of that one anchor.
C14_PlayerFromFirstAnchor ==
    (RowDone /\ result.value.type = "dict") =>
        LET tds == args.tds
            name0 == cell_text(tds, args.col_map, "player")
            url0 == cell_link(tds, args.col_map, "player")
            used == ~Truthy(name0) \/ ~Truthy(url0)
            anchors == SelectSeq(RowNodes(tds), IsProfileAnchor)
        IN  IF used /\ anchors # <<>>
            THEN /\ result.value.player.name = trim(JoinedText(Texts(<<anchors[1]>>)))
                 /\ result.value.player.url = trim(anchors[1].href)
            ELSE /\ result.value.player.name = name0
                 /\ result.value.player.url = url0

----------------------------------------------------------------------------
(* fetch_first_result (test/fetch_player_info.py).  What session.get ends   *)
(* with is [kind, status, body]: kind is "response" or the exception it    *)
(* raises; body is [json, results]: json tells whether resp.json() raises  *)
(* ("invalid"), returns something that is no dict ("list") or a dict, whose *)
(* data.get("results", []) is results.  The record returned is kept        *)
(* without query and duration_sec.                                         *)

MaxRetries == 3

Statuses == {200, 404, 429, 500, 503}

\* if status_code in (429, 502, 503, 504)
RetryableStatuses == {429, 502, 503, 504}

\* resp.raise_for_status() raises HTTPError
IsErrorStatus(st) == 400 <= st /\ st < 600

\* results lists: empty, a null element, one and two players
ResultLists == { <<>>, <<"None">>, <<"p1">>, <<"p1", "p2">>, <<"p2", "p1">> }

\* first = results[0] if results else None
First(results) == IF results # <<>> THEN results[1] ELSE "None"

NoBody == [json |-> "invalid", results |-> <<>>]

PlayerFetchRecord(success, status, error, first) ==
    [success |-> success, status_code |-> status, error |-> error, first_result |-> first]

InitFetch ==
    /\ ScraperIdle
    /\ fn = "none"
    /\ args = <<>>
    /\ result = Pending
    /\ fetch_pc = "loop"
    /\ max_retries \in 0..MaxRetries
    /\ attempt = 0
    /\ status_code = NoStatus
    /\ last_exc = "None"
    /\ sent = <<>>
    /\ record = Pending

\* while attempt < max_retries: attempt += 1; session.get(...)
Requesting(outcome) ==
    /\ fetch_pc = "loop"
    /\ attempt < max_retries
    /\ attempt' = attempt + 1
    /\ sent' = Append(sent, outcome)
    /\ UNCHANGED <<max_retries>>
    /\ UNCHANGED <<scraperVars, unitVars>>

\* session.get raises ConnectionError or Timeout: back off, next turn
GetRaises ==
    \E e \in {"ConnectionError", "Timeout"} :
        /\ Requesting([kind |-> e, status |-> NoStatus, body |-> NoBody])
        /\ last_exc' = e
        /\ UNCHANGED <<fetch_pc, status_code, record>>

\* a status of the retryable tuple: raise requests.HTTPError(msg), back off,
\* next turn
GetRetryableStatus ==
    \E st \in Statuses \cap RetryableStatuses :
        /\ Requesting([kind |-> "response", status |-> st, body |-> NoBody])
        /\ status_code' = st
        /\ last_exc' = "HTTPError"
        /\ UNCHANGED <<fetch_pc, record>>

\* resp.raise_for_status() raises HTTPError, which the same except clause
\* catches: back off, next turn
RaiseForStatus ==
    \E st \in Statuses \ RetryableStatuses :
        /\ IsErrorStatus(st)
        /\ Requesting([kind |-> "response", status |-> st, body |-> NoBody])
        /\ status_code' = st
        /\ last_exc' = "HTTPError"
        /\ UNCHANGED <<fetch_pc, record>>

\* resp.json() or data.get raises: except Exception, break, and the return
\* after the loop
GetBadBody ==
    \E st \in Statuses \ RetryableStatuses, j \in {"invalid", "list"} :
        /\ ~IsErrorStatus(st)
        /\ Requesting([kind |-> "response", status |-> st, body |-> [json |-> j, results |-> <<>>]])
        /\ status_code' = st
        /\ last_exc' = IF j = "invalid" THEN "JSONDecodeError" ELSE "AttributeError"
        /\ record' = Returned(PlayerFetchRecord(FALSE, st, last_exc', "None"))
        /\ fetch_pc' = "returned"

\* first is None: return the record with error "No results"
GetNoResults ==
    \E st \in Statuses \ RetryableStatuses, rs \in ResultLists :
        /\ ~IsErrorStatus(st)
        /\ First(rs) = "None"
        /\ Requesting([kind |-> "response", status |-> st, body |-> [json |-> "dict", results |-> rs]])
        /\ status_code' = st
        /\ record' = Returned(PlayerFetchRecord(FALSE, st, "No results", "None"))
        /\ fetch_pc' = "returned"
        /\ UNCHANGED last_exc

\* return the record of the first result
GetFirst ==
    \E st \in Statuses \ RetryableStatuses, rs \in ResultLists :
        /\ ~IsErrorStatus(st)
        /\ First(rs) # "None"
        /\ Requesting([kind |-> "response", status |-> st, body |-> [json |-> "dict", results |-> rs]])
        /\ status_code' = st
        /\ record' = Returned(PlayerFetchRecord(TRUE, st, "None", First(rs)))
        /\ fetch_pc' = "returned"
        /\ UNCHANGED last_exc

\* the loop ends with attempt = max_retries: the return after the loop
GiveUp ==
    /\ fetch_pc = "loop"
    /\ ~(attempt < max_retries)
    /\ record' = Returned(PlayerFetchRecord(FALSE, status_code,
                     IF last_exc # "None" THEN last_exc ELSE "Unknown error", "None"))
    /\ fetch_pc' = "returned"
    /\ UNCHANGED <<max_retries, attempt, status_code, last_exc, sent>>
    /\ UNCHANGED <<scraperVars, unitVars>>

NextFetch ==
    \/ GetRaises
    \/ GetRetryableStatus
    \/ RaiseForStatus
    \/ GetBadBody
    \/ GetNoResults
    \/ GetFirst
    \/ GiveUp

SpecFetch == InitFetch /\ [][NextFetch]_vars

\* a failure the function is documented to retry: 429, 5xx, connection
\* error, timeout
IsRetryable(outcome) ==
    \/ outcome.kind \in {"ConnectionError", "Timeout"}
    \/ outcome.kind = "response" /\ (outcome.status = 429 \/ outcome.status \in 500..599)

\* a response that carried a non-empty results list
CarriedResults(outcome) ==
    /\ outcome.kind = "response"
    /\ outcome.body.json = "dict"
    /\ outcome.body.results # <<>>

\* C15: at most max_retries requests are sent; a request follows only a
\* retryable failure; once returned, the record is a success exactly when a
\* response carried a non-empty results list, and then first_result is the
\* first element of that list and error is null; a retryable failure ends the
\* function only when no attempt remains.
C15_RetryPolicy ==
    /\ Len(sent) <= max_retries
    /\ \A i \in 1..(Len(sent) - 1) : IsRetryable(sent[i])
    /\ fetch_pc = "returned" =>
          /\ record.done
          /\ (sent # <<>> /\ IsRetryable(sent[Len(sent)])) => Len(sent) = max_retries
          /\ record.value.success <=> (\E i \in 1..Len(sent) : CarriedResults(sent[i]))
          /\ record.value.success =>
                /\ record.value.first_result = sent[Len(sent)].body.results[1]
                /\ record.value.error = "None"

----------------------------------------------------------------------------
(* _norm_text on every short text over letters, an accented letter, space,  *)
(* line break and punctuation                                              *)

TextChars == {"a", "B", "U+00FC", " ", "\n", "-", "."}

MaxText == 4

ShortTexts == UNION {[1..n -> TextChars] : n \in 0..MaxText}

InitNorm ==
    /\ ScraperIdle
    /\ FetchIdle
    /\ fn = "_norm_text"
    /\ args \in {[s |-> t] : t \in ShortTexts \cup {None}}
    /\ result = Pending

CallNormText ==
    /\ fn = "_norm_text"
    /\ result = Pending
    /\ result' = Returned(_norm_text(args.s))
    /\ UNCHANGED <<fn, args>>
    /\ UNCHANGED <<scraperVars, fetchVars>>

NextNorm == CallNormText

SpecNorm == InitNorm /\ [][NextNorm]_vars

\* C16: normalizing a normalized text changes nothing, and a normalized text
\* has no space at either end and no two spaces in a row.
C16_NormIdempotentNormalForm ==
    (fn = "_norm_text" /\ result.done) =>
        LET t == result.value IN
        /\ _norm_text(t) = t
        /\ t # <<>> => (t[1] # " " /\ t[Len(t)] # " ")
        /\ \A i \in 1..(Len(t) - 1) : ~(t[i] = " " /\ t[i + 1] = " ")

====
